---- MODULE Spec2Model ----
(***************************************************************************)
(* State machine of the App component (client/src/App.tsx): filters, the   *)
(* debounced search term, the paginated companies list, the intersection   *)
(* observer wired to the last card, the bookmark set and the login dialog. *)
(*                                                                         *)
(* Granularity.  JavaScript runs each handler to completion, and React     *)
(* commits the state updates of one handler in one render.  One action of  *)
(* this module is therefore one event (a user event, a timer, an observer  *)
(* callback, the continuation of an awaited response) together with the    *)
(* render it causes, the ref callbacks of that render's commit, the        *)
(* effects whose dependencies changed, and the render those effects cause. *)
(* An awaited network call splits a function in two actions: the part      *)
(* before the await, and the continuation run when the response arrives.   *)
(***************************************************************************)
EXTENDS Integers, Sequences, FiniteSets, Bags, TLC

(* ------------------------------ bounds -------------------------------- *)

\* fetchCompanies calls the App makes in one run (the two of the mount included)
MaxFetches == 5
\* companies per page of the server (the request's limit, scaled down)
Limit == 2

(* ------------------------------ values -------------------------------- *)

\* cursor: string | null; null is 0, a server cursor is the page index >= 1
NullCursor == 0

\* Values the search input takes.  "a " is sent to the server as "a".
SearchValues == {"", "a "}
\* Values the location selector takes.
LocationValues == {"", "x"}

NoUser == "none"
Users == {"u1"}

NoTimer == "<no timer>"

\* No DOM node (the ref callback's null).
NoNode == <<>>

\* String.prototype.trim on the values above.
Trim(s) == IF s = "a " THEN "a" ELSE s

(* ------------------------- the remote server -------------------------- *)

\* Number of pages the server holds for a query (search, location).
Pages(q) ==
    CASE q = <<"", "">> -> 2
      [] q = <<"a", "">> -> 1
      [] q = <<"", "x">> -> 1
      [] OTHER -> 0

Total(q) == Pages(q) * Limit

\* The server's result sequence for a query: company ids <<search, location, i>>.
Results(q) == [i \in 1..Total(q) |-> <<q[1], q[2], i>>]

Min(a, b) == IF a < b THEN a ELSE b

\* The URL parameters fetchCompanies builds from its arguments: a null cursor
\* and an empty trimmed term are left out, which the server reads as the first
\* page and as no filter.
Params(req) ==
    [cursor |-> req.cursor, search |-> Trim(req.search), location |-> Trim(req.location)]

\* GET /search: disjoint consecutive pages for consecutive cursors.
Response(req) ==
    LET p == Params(req)
        q == <<p.search, p.location>>
        from == p.cursor * Limit
        more == from + Limit < Total(q)
    IN  [companiesData |-> SubSeq(Results(q), from + 1, Min(from + Limit, Total(q))),
         nextCursor |-> IF more THEN p.cursor + 1 ELSE NullCursor,
         hasMore |-> more]

\* GET /bookmarks
ServerBookmarks == {<<"", "", 1>>}

(* ------------------------------- state -------------------------------- *)

VARIABLES
    mounted,          \* the App has been mounted (its effects have run)
    currentPage,      \* "home" | "bookmarks"
    companies,        \* Company[]
    bookmarkedIds,    \* Set<string>
    loading,
    cursor,
    hasMore,
    filters,          \* [search, location]
    showLoginDialog,
    user,             \* useAuth().user
    debouncedSearch,  \* useDebounce(filters.search, 300)
    timer,            \* the pending debounce timer's value, or NoTimer
    observer,         \* observer.current and the observers it no longer names
    requests,         \* fetchCompanies calls awaiting their response (a bag)
    authPending,      \* checkAuth awaiting its response
    bookmarksPending, \* fetchBookmarks awaiting its response
    lastOp,           \* history: the last event handled ("resolveSuperseded": a reset
                      \* response for other filters than the current ones, arriving
                      \* after the reset fetch of the current ones completed)
    resetPair,        \* history: (search, location) of the last reset fetch that completed
    issued,           \* history: fetchCompanies calls made so far
    stable,           \* history: search values that stayed unchanged for the debounce delay
    toggled           \* history: <<id, state>> of the last toggle of each id by a logged-in user

vars == <<mounted, currentPage, companies, bookmarkedIds, loading, cursor, hasMore,
          filters, showLoginDialog, user, debouncedSearch, timer, observer, requests,
          authPending, bookmarksPending, lastOp, resetPair, stable, issued, toggled>>

NoPair == <<>>

\* observer.current = null, and equally an observer that observes no node:
\* neither ever calls back.
NullObserver ==
    [hasMore |-> FALSE, cursor |-> NullCursor, search |-> "", location |-> "", node |-> NoNode]

Init ==
    /\ mounted = FALSE
    /\ currentPage = "home"
    /\ companies = <<>>
    /\ bookmarkedIds = {}
    /\ loading = FALSE
    /\ cursor = NullCursor
    /\ hasMore = TRUE
    /\ filters = [search |-> "", location |-> ""]
    /\ showLoginDialog = FALSE
    /\ user = NoUser
    /\ debouncedSearch = ""
    /\ timer = NoTimer
    /\ observer = [current |-> NullObserver, orphans |-> {}]
    /\ requests = EmptyBag
    /\ authPending = FALSE
    /\ bookmarksPending = FALSE
    /\ lastOp = "init"
    /\ resetPair = NoPair
    /\ stable = {""}
    /\ issued = 0
    /\ toggled = {}

(* ----------------------- render and ref callbacks --------------------- *)

\* What one render of App reads of the state that lastCompanyRef and the
\* companies.map render depend on.
View ==
    [page |-> currentPage, companies |-> companies, loading |-> loading,
     hasMore |-> hasMore, cursor |-> cursor, search |-> debouncedSearch,
     location |-> filters.location]

\* Mutant of Deps: hasMore and cursor are missing from the dependency list.
DepsFiltersOnly(v) == <<v.loading, v.search, v.location>>

\* The dependency list of lastCompanyRef: the callback is a new function, and
\* React detaches and re-attaches the ref, exactly when one of these changes.
Deps(v) == <<v.loading, v.hasMore, v.cursor, v.search, v.location>>

\* The DOM node of the card that carries ref={lastCompanyRef}: the last card
\* of the home page, identified by its position and key.
LastNode(v) ==
    IF v.page = "home" /\ v.companies # <<>>
    THEN <<Len(v.companies), v.companies[Len(v.companies)]>>
    ELSE NoNode

\* Whether a node is in the document under view v.
Rendered(node, v) ==
    /\ node # NoNode
    /\ v.page = "home"
    /\ node[1] <= Len(v.companies)
    /\ v.companies[node[1]] = node[2]

\* Whether the render's output holds the LoginDialog element: the bookmarks
\* branch returns BookmarksPage alone, the element is in the other return.
LoginDialogRendered == currentPage # "bookmarks"

\* Mutant of Disconnect: the previous observer is left connected.
DisconnectSkipped(o) == o

\* observer.current.disconnect()
Disconnect(o) == NullObserver

\* new IntersectionObserver(callback) closing over v, then observe(node) if node
NewObserver(v, node) ==
    IF node = NoNode
    THEN NullObserver
    ELSE [hasMore |-> v.hasMore, cursor |-> v.cursor, search |-> v.search,
          location |-> v.location, node |-> node]

\* An observer that observer.current stops naming while it still observes a node.
StillObserving(o) == IF o.node # NoNode THEN {o} ELSE {}

\* lastCompanyRef(node), the callback created by the render of view v.
lastCompanyRef(v, node, obs) ==
    IF v.loading
    THEN obs
    ELSE LET old == Disconnect(obs.current)
         IN  [current |-> NewObserver(v, node),
              orphans |-> obs.orphans \cup StillObserving(old)]

\* The commit of a render of view new after a render of view old: when the
\* callback or the card that carries it changed, React calls the old callback
\* with null and then the new callback with the new node.
Commit(old, new, obs) ==
    IF LastNode(old) = LastNode(new) /\ Deps(old) = Deps(new)
    THEN obs
    ELSE LET detached == IF LastNode(old) # NoNode
                         THEN lastCompanyRef(old, NoNode, obs)
                         ELSE obs
         IN  IF LastNode(new) # NoNode
             THEN lastCompanyRef(new, LastNode(new), detached)
             ELSE detached

(* --------------------------- fetchCompanies --------------------------- *)

Request(resetList, currentCursor, searchTerm, locationFilter) ==
    [reset |-> resetList, cursor |-> currentCursor, search |-> searchTerm,
     location |-> locationFilter]

InFlight == BagCardinality(requests)

\* fetchCompanies up to its await: setLoading(true) and the request is sent.
\* st = [view, requests].
fetchCompanies(st, req) ==
    [view |-> [st.view EXCEPT !.loading = TRUE],
     requests |-> st.requests (+) SetToBag({req})]

\* Mutant of NextCompanies: resetList is ignored, every response is appended.
NextCompaniesAppendOnly(prev, req, data) == prev \o data.companiesData

\* The list after the response's setCompanies.
NextCompanies(prev, req, data) ==
    IF req.reset THEN data.companiesData ELSE prev \o data.companiesData

\* Mutant of fetchCompaniesThen: the response's hasMore is not stored.
fetchCompaniesThenKeepsHasMore(v, req) ==
    LET data == Response(req)
    IN  [v EXCEPT !.companies = NextCompanies(v.companies, req, data),
                  !.cursor = data.nextCursor,
                  !.loading = FALSE]

\* fetchCompanies after its await, the response decoded: lines 80-84 and 88.
fetchCompaniesThen(v, req) ==
    LET data == Response(req)
    IN  [v EXCEPT !.companies = NextCompanies(v.companies, req, data),
                  !.cursor = data.nextCursor,
                  !.hasMore = data.hasMore,
                  !.loading = FALSE]

\* Mutant of fetchCompaniesCatch: the handler also empties the list.
fetchCompaniesCatchClears(v, req) == [v EXCEPT !.loading = FALSE, !.companies = <<>>]

\* fetchCompanies after its await, fetch or res.json() having thrown: catch, finally.
fetchCompaniesCatch(v, req) == [v EXCEPT !.loading = FALSE]

\* Mutant of FilterEffect: the input's value is sent, not the debounced one.
FilterEffectRawSearch(st) ==
    fetchCompanies(
        [st EXCEPT !.view.cursor = NullCursor, !.view.hasMore = TRUE],
        Request(TRUE, NullCursor, filters.search, st.view.location))

\* The effect on [debouncedSearch, filters.location, fetchCompanies].
FilterEffect(st) ==
    fetchCompanies(
        [st EXCEPT !.view.cursor = NullCursor, !.view.hasMore = TRUE],
        Request(TRUE, NullCursor, st.view.search, st.view.location))

\* The effect on []: fetchCompanies(true) with its default arguments.
InitialLoadEffect(st) == fetchCompanies(st, Request(TRUE, NullCursor, "", ""))

\* The state variables a view holds, after the action.
SetView(v) ==
    /\ currentPage' = v.page
    /\ companies' = v.companies
    /\ loading' = v.loading
    /\ hasMore' = v.hasMore
    /\ cursor' = v.cursor
    /\ debouncedSearch' = v.search
    /\ filters' = [filters EXCEPT !.location = v.location]

\* A change of view v0 to v1 whose render runs the filter effect: the first
\* render commits, the effect runs, and the render it causes commits.
WithFilterEffect(v1) ==
    LET st == FilterEffect([view |-> v1, requests |-> requests])
    IN  /\ SetView(st.view)
        /\ requests' = st.requests
        /\ issued' = issued + BagCardinality(st.requests) - InFlight
        /\ observer' = Commit(v1, st.view, Commit(View, v1, observer))

bookmarkVars == <<bookmarkedIds, showLoginDialog, user, authPending, bookmarksPending>>
historyVars == <<resetPair, stable, toggled>>

(* ------------------------------ actions ------------------------------- *)

\* Mount: the first render shows no card; then every effect runs once, in
\* order: the filter effect, the initial load (fetchCompanies, fetchLocations,
\* checkAuth) and the user effect (no user yet).
Mount ==
    /\ ~mounted
    /\ mounted' = TRUE
    /\ LET st == InitialLoadEffect(FilterEffect([view |-> View, requests |-> requests]))
       IN  /\ SetView(st.view)
           /\ requests' = st.requests
           /\ issued' = issued + BagCardinality(st.requests) - InFlight
           /\ observer' = Commit(View, st.view, observer)
    /\ authPending' = TRUE
    /\ lastOp' = "mount"
    /\ UNCHANGED <<bookmarkedIds, showLoginDialog, user, bookmarksPending, timer,
                   resetPair, stable, toggled>>

\* handleSearchChange: the input's new value; useDebounce clears its timer
\* and starts one for the new value.
HandleSearchChange(s) ==
    /\ mounted /\ currentPage = "home"
    /\ s # filters.search
    /\ filters' = [filters EXCEPT !.search = s]
    /\ timer' = s
    /\ lastOp' = "search"
    /\ UNCHANGED <<mounted, currentPage, companies, loading, cursor, hasMore,
                   debouncedSearch, observer, requests, issued>>
    /\ UNCHANGED bookmarkVars
    /\ UNCHANGED historyVars

\* The debounce timer fires: the value was unchanged for the whole delay.
DebounceFire ==
    /\ timer # NoTimer
    /\ timer' = NoTimer
    /\ stable' = stable \cup {timer}
    /\ lastOp' = "debounce"
    /\ IF timer = debouncedSearch
       THEN UNCHANGED <<currentPage, companies, loading, cursor, hasMore, filters,
                        debouncedSearch, observer, requests, issued>>
       ELSE /\ issued < MaxFetches
            /\ WithFilterEffect([View EXCEPT !.search = timer])
    /\ UNCHANGED <<mounted, resetPair, toggled>>
    /\ UNCHANGED bookmarkVars

\* handleLocationChange
HandleLocationChange(l) ==
    /\ mounted /\ currentPage = "home"
    /\ l # filters.location
    /\ issued < MaxFetches
    /\ WithFilterEffect([View EXCEPT !.location = l])
    /\ lastOp' = "location"
    /\ UNCHANGED <<mounted, timer, resetPair, stable, toggled>>
    /\ UNCHANGED bookmarkVars

\* The callback of a connected observer runs with isIntersecting: the node it
\* observes is in the document and scrolled into view.
Intersect(o) ==
    /\ Rendered(o.node, View)
    /\ lastOp' = "intersect"
    /\ IF o.hasMore
       THEN /\ issued < MaxFetches
            /\ LET st == fetchCompanies([view |-> View, requests |-> requests],
                                        Request(FALSE, o.cursor, o.search, o.location))
               IN  /\ SetView(st.view)
                   /\ requests' = st.requests
                   /\ issued' = issued + BagCardinality(st.requests) - InFlight
                   /\ observer' = Commit(View, st.view, observer)
       ELSE UNCHANGED <<currentPage, companies, loading, cursor, hasMore, filters,
                        debouncedSearch, observer, requests, issued>>
    /\ UNCHANGED <<mounted, timer>>
    /\ UNCHANGED bookmarkVars
    /\ UNCHANGED historyVars

Observers == {observer.current} \cup observer.orphans

\* The response of a request arrives and decodes.
ResolveOk(req) ==
    /\ BagIn(req, requests)
    /\ LET v == fetchCompaniesThen(View, req)
       IN  /\ SetView(v)
           /\ observer' = Commit(View, v, observer)
    /\ requests' = requests (-) SetToBag({req})
    /\ issued' = issued
    /\ resetPair' = IF req.reset THEN <<req.search, req.location>> ELSE resetPair
    /\ lastOp' = IF /\ req.reset
                     /\ resetPair = <<debouncedSearch, filters.location>>
                     /\ resetPair # <<req.search, req.location>>
                  THEN "resolveSuperseded"
                  ELSE "resolve"
    /\ UNCHANGED <<mounted, timer, stable, toggled>>
    /\ UNCHANGED bookmarkVars

\* The request fails, or its body does not decode.
ResolveFail(req) ==
    /\ BagIn(req, requests)
    /\ LET v == fetchCompaniesCatch(View, req)
       IN  /\ SetView(v)
           /\ observer' = Commit(View, v, observer)
    /\ requests' = requests (-) SetToBag({req})
    /\ issued' = issued
    /\ lastOp' = "fail"
    /\ UNCHANGED <<mounted, timer>>
    /\ UNCHANGED bookmarkVars
    /\ UNCHANGED historyVars

(* ------------------------ session and bookmarks ----------------------- *)

\* fetchBookmarks up to its await: whether the request is sent.
fetchBookmarks(u) == u # NoUser

\* checkAuth resolves: useAuth sets the user it found (or none); the effect
\* on [user] then calls fetchBookmarks.
AuthResolve(u) ==
    /\ authPending
    /\ authPending' = FALSE
    /\ user' = u
    /\ bookmarksPending' = (bookmarksPending \/ (u # user /\ fetchBookmarks(u)))
    /\ lastOp' = "auth"
    /\ UNCHANGED <<mounted, currentPage, companies, bookmarkedIds, loading, cursor,
                   hasMore, filters, showLoginDialog, debouncedSearch, timer, observer,
                   requests, issued>>
    /\ UNCHANGED historyVars

\* fetchBookmarks after its await: the response's ids replace the set.
fetchBookmarksThen(prev) == ServerBookmarks

BookmarksResolveOk ==
    /\ bookmarksPending
    /\ bookmarksPending' = FALSE
    /\ bookmarkedIds' = fetchBookmarksThen(bookmarkedIds)
    /\ lastOp' = "bookmarks"
    /\ UNCHANGED <<mounted, currentPage, companies, loading, cursor, hasMore, filters,
                   showLoginDialog, user, debouncedSearch, timer, observer, requests, issued,
                   authPending>>
    /\ UNCHANGED historyVars

BookmarksResolveFail ==
    /\ bookmarksPending
    /\ bookmarksPending' = FALSE
    /\ lastOp' = "bookmarksFail"
    /\ UNCHANGED <<mounted, currentPage, companies, bookmarkedIds, loading, cursor,
                   hasMore, filters, showLoginDialog, user, debouncedSearch, timer,
                   observer, requests, issued, authPending>>
    /\ UNCHANGED historyVars

\* Mutant of handleBookmarkToggle: the check of the user is missing.
handleBookmarkToggleNoGuard(u, prev, dialog, id, state) ==
    [bookmarkedIds |-> IF state THEN prev \cup {id} ELSE prev \ {id},
     showLoginDialog |-> dialog]

\* Mutant of handleBookmarkToggle: the updated set is not a copy of prev.
handleBookmarkToggleNoCopy(u, prev, dialog, id, state) ==
    IF u = NoUser
    THEN [bookmarkedIds |-> prev, showLoginDialog |-> TRUE]
    ELSE [bookmarkedIds |-> IF state THEN {id} ELSE {},
          showLoginDialog |-> dialog]

\* handleBookmarkToggle(id, state) under user u: the bookmark set and the
\* dialog flag it leaves.
handleBookmarkToggle(u, prev, dialog, id, state) ==
    IF u = NoUser
    THEN [bookmarkedIds |-> prev, showLoginDialog |-> TRUE]
    ELSE [bookmarkedIds |-> IF state THEN prev \cup {id} ELSE prev \ {id},
          showLoginDialog |-> dialog]

\* The ids of the cards the home page shows.
CardIds == {companies[i] : i \in 1..Len(companies)}

\* A card's bookmark control calls onBookmarkToggle(id, state).
HandleBookmarkToggle(id, state) ==
    /\ currentPage = "home"
    /\ id \in CardIds
    /\ LET r == handleBookmarkToggle(user, bookmarkedIds, showLoginDialog, id, state)
       IN  /\ bookmarkedIds' = r.bookmarkedIds
           /\ showLoginDialog' = r.showLoginDialog
    /\ toggled' = IF user = NoUser
                   THEN toggled
                   ELSE {t \in toggled : t[1] # id} \cup {<<id, state>>}
    /\ lastOp' = "toggle"
    /\ UNCHANGED <<mounted, currentPage, companies, loading, cursor, hasMore, filters,
                   user, debouncedSearch, timer, observer, requests, issued,
                   authPending, bookmarksPending, resetPair, stable>>

\* The Login button, shown while there is no user.
LoginClick ==
    /\ mounted /\ currentPage = "home" /\ user = NoUser
    /\ showLoginDialog' = TRUE
    /\ lastOp' = "login"
    /\ UNCHANGED <<mounted, currentPage, companies, bookmarkedIds, loading, cursor,
                   hasMore, filters, user, debouncedSearch, timer, observer, requests, issued,
                   authPending, bookmarksPending>>
    /\ UNCHANGED historyVars

\* The dialog's onClose; the dialog is part of the home page only.
LoginClose ==
    /\ currentPage = "home" /\ showLoginDialog
    /\ showLoginDialog' = FALSE
    /\ lastOp' = "close"
    /\ UNCHANGED <<mounted, currentPage, companies, bookmarkedIds, loading, cursor,
                   hasMore, filters, user, debouncedSearch, timer, observer, requests, issued,
                   authPending, bookmarksPending>>
    /\ UNCHANGED historyVars

\* A change of page: the cards are unmounted or mounted, so the commit calls
\* the ref callbacks.
SetCurrentPage(page) ==
    /\ currentPage' = page
    /\ observer' = Commit(View, [View EXCEPT !.page = page], observer)
    /\ UNCHANGED <<mounted, companies, bookmarkedIds, loading, cursor, hasMore, filters,
                   showLoginDialog, user, debouncedSearch, timer, requests, issued, authPending,
                   bookmarksPending>>
    /\ UNCHANGED historyVars

\* The My Bookmarks button, shown while there is a user.
GoBookmarks ==
    /\ currentPage = "home" /\ user # NoUser
    /\ SetCurrentPage("bookmarks")
    /\ lastOp' = "goBookmarks"

\* BookmarksPage's onBack
OnBack ==
    /\ currentPage = "bookmarks"
    /\ SetCurrentPage("home")
    /\ lastOp' = "back"

\* BookmarksPage's onLoginRequired
OnLoginRequired ==
    /\ currentPage = "bookmarks"
    /\ showLoginDialog' = TRUE
    /\ lastOp' = "loginRequired"
    /\ UNCHANGED <<mounted, currentPage, companies, bookmarkedIds, loading, cursor,
                   hasMore, filters, user, debouncedSearch, timer, observer, requests, issued,
                   authPending, bookmarksPending>>
    /\ UNCHANGED historyVars

(* --------------------------- specifications --------------------------- *)

AllIds == UNION {{Results(<<Trim(s), Trim(l)>>)[i] : i \in 1..Total(<<Trim(s), Trim(l)>>)} :
                 <<s, l>> \in SearchValues \X LocationValues}

\* The cards whose bookmark control is clicked: the first two of the initial
\* list, one the server holds a bookmark of and one it does not.
ToggleIds == {Results(<<Trim(""), Trim("")>>)[i] : i \in 1..2}

Next ==
    \/ Mount
    \/ \E s \in SearchValues : HandleSearchChange(s)
    \/ DebounceFire
    \/ \E l \in LocationValues : HandleLocationChange(l)
    \/ \E o \in Observers : Intersect(o)
    \/ \E req \in BagToSet(requests) : ResolveOk(req)
    \/ \E req \in BagToSet(requests) : ResolveFail(req)
    \/ \E u \in Users \cup {NoUser} : AuthResolve(u)
    \/ BookmarksResolveOk
    \/ BookmarksResolveFail
    \/ \E id \in ToggleIds, state \in BOOLEAN : HandleBookmarkToggle(id, state)
    \/ LoginClick
    \/ LoginClose
    \/ GoBookmarks
    \/ OnBack
    \/ OnLoginRequired

\* The whole App.
Spec == Init /\ [][Next]_vars

\* Pagination: every event that reads or writes the filters, the list, the
\* cursor, hasMore, loading, the requests or the observer, the change of page
\* included.  The bookmark set and the dialog are read by none of them.
NextPagination ==
    \/ Mount
    \/ \E s \in SearchValues : HandleSearchChange(s)
    \/ DebounceFire
    \/ \E l \in LocationValues : HandleLocationChange(l)
    \/ \E o \in Observers : Intersect(o)
    \/ \E req \in BagToSet(requests) : ResolveOk(req)
    \/ \E req \in BagToSet(requests) : ResolveFail(req)
    \/ \E u \in Users \cup {NoUser} : AuthResolve(u)
    \/ GoBookmarks
    \/ OnBack

SpecPagination == Init /\ [][NextPagination]_vars

\* Pagination while every request succeeds.
NextNoFailure ==
    \/ Mount
    \/ \E s \in SearchValues : HandleSearchChange(s)
    \/ DebounceFire
    \/ \E l \in LocationValues : HandleLocationChange(l)
    \/ \E o \in Observers : Intersect(o)
    \/ \E req \in BagToSet(requests) : ResolveOk(req)
    \/ \E u \in Users \cup {NoUser} : AuthResolve(u)
    \/ GoBookmarks
    \/ OnBack

SpecNoFailure == Init /\ [][NextNoFailure]_vars

\* A fixed filter pair: mount, scrolling and the arrival of responses.
NextFixedFilters ==
    \/ Mount
    \/ \E o \in Observers : Intersect(o)
    \/ \E req \in BagToSet(requests) : ResolveOk(req)
    \/ \E u \in Users \cup {NoUser} : AuthResolve(u)
    \/ GoBookmarks
    \/ OnBack

SpecFixedFilters == Init /\ [][NextFixedFilters]_vars

\* SpecFixedFilters with the scheduling the browser gives: the effects of the
\* first render run, every request sent is answered, the session check
\* answers, the list is displayed again after a visit of the bookmarks page,
\* and the last card of a displayed list is scrolled into view again and again.
SpecFixedFiltersFair ==
    /\ SpecFixedFilters
    /\ WF_vars(Mount)
    /\ WF_vars(\E req \in BagToSet(requests) : ResolveOk(req))
    /\ WF_vars(\E u \in Users \cup {NoUser} : AuthResolve(u))
    /\ WF_vars(OnBack)
    /\ SF_vars(\E o \in Observers : Intersect(o))

\* Session and bookmarks, over the list of the initial filters.
NextBookmarks ==
    \/ Mount
    \/ \E o \in Observers : Intersect(o)
    \/ \E req \in BagToSet(requests) : ResolveOk(req)
    \/ \E req \in BagToSet(requests) : ResolveFail(req)
    \/ \E u \in Users \cup {NoUser} : AuthResolve(u)
    \/ BookmarksResolveOk
    \/ BookmarksResolveFail
    \/ \E id \in ToggleIds, state \in BOOLEAN : HandleBookmarkToggle(id, state)
    \/ LoginClick
    \/ LoginClose
    \/ GoBookmarks
    \/ OnBack
    \/ OnLoginRequired

SpecBookmarks == Init /\ [][NextBookmarks]_vars

(* ------------------------------- claims ------------------------------- *)

IsPrefix(s, t) == Len(s) <= Len(t) /\ \A i \in 1..Len(s) : s[i] = t[i]

NoDuplicates(s) == \A i, j \in 1..Len(s) : i # j => s[i] # s[j]

\* C1: with the filters fixed at their initial pair ("", ""), after any
\* sequence of mount, scroll-triggered fetches and response arrivals the
\* companies list is a duplicate-free prefix of the server's result sequence
\* for that pair.  (Checked under SpecFixedFilters, which changes no filter
\* and fails no request.)
C1_DuplicateFreePrefix ==
    /\ NoDuplicates(companies)
    /\ IsPrefix(companies, Results(<<Trim(""), Trim("")>>))

\* The server query an item was returned for, and the one a filter pair asks.
ItemQuery(c) == <<c[1], c[2]>>
PairQuery(pair) == <<Trim(pair[1]), Trim(pair[2])>>

ItemsOf(pair) == \A i \in 1..Len(companies) : ItemQuery(companies[i]) = PairQuery(pair)

\* An observer callback that requests the next page.
ScrollFetch(o) == Intersect(o) /\ o.hasMore

\* C2: a next-page (reset = false) fetch is requested for a filter pair only
\* when the list holds no item of another pair and, if it carries a cursor,
\* the reset fetch of that pair is the one that completed last.
C2_ResetBeforeNextPage ==
    [][\A o \in Observers :
          ScrollFetch(o) =>
              /\ ItemsOf(<<o.search, o.location>>)
              /\ o.cursor # NullCursor => resetPair = <<o.search, o.location>>]_vars

\* C3: every item of the list comes from a response for the filter pair of
\* the reset fetch that completed most recently (and the list is empty while
\* none has completed).
C3_ListOfLastReset ==
    IF resetPair = NoPair THEN companies = <<>> ELSE ItemsOf(resetPair)

\* C4: while hasMore is false, no connected observer that observes a node
\* holds a closure with hasMore = true, so no intersection event requests a page.
C4_NoFetchWhenExhausted ==
    hasMore = FALSE => \A o \in Observers : o.node # NoNode => ~o.hasMore

C4_Witness ==
    /\ hasMore = FALSE
    /\ lastOp = "intersect"
    /\ Rendered(observer.current.node, View)

\* C5: handleBookmarkToggle(id, state) with no user leaves bookmarkedIds
\* unchanged and sets showLoginDialog.
C5_LoggedOutToggle ==
    [][\A id \in AllIds, state \in BOOLEAN :
          (HandleBookmarkToggle(id, state) /\ user = NoUser) =>
              /\ bookmarkedIds' = bookmarkedIds
              /\ showLoginDialog' = TRUE]_vars

C5_Witness == lastOp = "toggle" /\ user = NoUser /\ showLoginDialog

\* C6: handleBookmarkToggle(id, state) with a user makes id a member iff
\* state, and changes neither another id's membership nor showLoginDialog.
C6_LoggedInToggle ==
    [][\A id \in AllIds, state \in BOOLEAN :
          (HandleBookmarkToggle(id, state) /\ user # NoUser) =>
              /\ (id \in bookmarkedIds') <=> state
              /\ bookmarkedIds' \ {id} = bookmarkedIds \ {id}
              /\ showLoginDialog' = showLoginDialog]_vars

C6_Witness ==
    /\ lastOp = "toggle"
    /\ user # NoUser
    /\ bookmarkedIds # {}
    /\ bookmarkedIds # ServerBookmarks

\* C7: a fetchCompanies call that fails leaves companies, cursor and hasMore
\* as they were, sets loading to false, and sends no request.
C7_FailureKeepsState ==
    [][\A req \in BagToSet(requests) :
          ResolveFail(req) =>
              /\ companies' = companies
              /\ cursor' = cursor
              /\ hasMore' = hasMore
              /\ loading' = FALSE
              /\ requests' = requests (-) SetToBag({req})]_vars

C7_Witness ==
    /\ lastOp = "fail"
    /\ companies # <<>>
    /\ cursor # NullCursor
    /\ InFlight > 0

\* C8: loading is true whenever a fetchCompanies request is in flight.
C8_LoadingWhileInFlight == InFlight > 0 => loading

\* C9: the response of a reset fetch replaces companies, cursor and hasMore
\* whatever the current filters are: the response that resolves last wins.
C9_LastResponseWins ==
    [][\A req \in BagToSet(requests) :
          (ResolveOk(req) /\ req.reset) =>
              /\ companies' = Response(req).companiesData
              /\ cursor' = Response(req).nextCursor
              /\ hasMore' = Response(req).hasMore]_vars

\* Both reset fetches have resolved, the superseded one last: the list shows
\* its results under the newer filters.
C9_Witness ==
    /\ lastOp = "resolveSuperseded"
    /\ InFlight = 0
    /\ timer = NoTimer
    /\ companies # <<>>
    /\ ItemsOf(resetPair)
    /\ PairQuery(resetPair) # PairQuery(<<filters.search, filters.location>>)

\* C10: the search term of every request is a value the search input held
\* for the whole debounce delay, or the initial empty string.
C10_OnlyDebouncedTerms == \A req \in BagToSet(requests) : req.search \in stable

\* A location change during the delay window of a term that never settled.
C10_Witness ==
    /\ lastOp = "location"
    /\ timer # NoTimer
    /\ filters.search \notin stable
    /\ \E req \in BagToSet(requests) : req.location = filters.location

\* C11: at most one observer is connected to a node, it observes the last
\* rendered card, and it was created under the current values of hasMore,
\* cursor, debounced search and location with loading false: no observer
\* created under older values is still connected.
C11_SingleCurrentObserver ==
    /\ observer.orphans = {}
    /\ observer.current.node # NoNode =>
          /\ ~loading
          /\ observer.current = NewObserver(View, LastNode(View))

\* A page was appended (loading, cursor and the last card changed) and the
\* observer now connected observes the new last card.
C11_Witness ==
    /\ observer.current.node # NoNode
    /\ observer.current.node[1] > Limit
    /\ lastOp = "resolve"

\* The list holds every result of the server for the initial filters.
AllResultsListed ==
    LET all == Results(<<Trim(""), Trim("")>>)
    IN  \A i \in 1..Len(all) : \E j \in 1..Len(companies) : companies[j] = all[i]

PaginationDone ==
    /\ ~hasMore
    /\ ~loading
    /\ InFlight = 0
    /\ AllResultsListed

C13_LoginDialogOnBookmarks ==
    (currentPage = "bookmarks" /\ showLoginDialog) => LoginDialogRendered

\* C14: no observer callback starts a pagination fetch (reset = false) while
\* another fetchCompanies request is in flight.
C14_NoScrollFetchWhileInFlight ==
    [][\A o \in Observers : ScrollFetch(o) => InFlight = 0]_vars

\* C15: a toggle by a logged-in user is not lost: after
\* handleBookmarkToggle(id, TRUE) the id is in bookmarkedIds, and after
\* handleBookmarkToggle(id, FALSE) it is not, until the next toggle of that
\* id, whatever fetchBookmarks response arrives in between.
C15_ToggleNotLost == \A t \in toggled : (t[1] \in bookmarkedIds) <=> t[2]

\* The number of reset fetches in a bag of requests.
Resets(bag) ==
    BagCardinality([req \in {r \in BagToSet(bag) : r.reset} |-> bag[req]])

\* The reset fetches a step issues (a step that issues one resolves none).
ResetsIssued == Resets(requests') - Resets(requests)

FiltersTakeEffect ==
    \/ debouncedSearch' # debouncedSearch
    \/ filters'.location # filters.location

\* C16: exactly one reset fetch is issued per filter combination taking
\* effect: the mount issues one for the initial filters, each change of the
\* debounced search or of the location issues one, and no other step issues any.
C16_OneResetPerFilters ==
    [][/\ Mount => ResetsIssued = 1
       /\ FiltersTakeEffect => ResetsIssued = 1
       /\ ~(Mount \/ FiltersTakeEffect) => ResetsIssued <= 0]_vars

====
